---- MODULE Spec2Model ----
(***************************************************************************)
(* A model of the clip conversion pipeline:                                *)
(*   analyzeVideo / parseMetadata   (src/src/video_analyse.ts)             *)
(*   getVideoFormats / getAudioFormats and their helpers                   *)
(*                                  (src/unnamed/part_000)                 *)
(*   convertVideo / videoArguments / audioArguments                        *)
(*                                  (src/unnamed/part_001)                 *)
(*                                                                         *)
(* Numbers.  JavaScript numbers are modelled by integers and by rationals  *)
(* <<numerator, denominator>> with a positive denominator.  Frame rates    *)
(* are counted in 1/1000 frames per second.  Math.log2 is replaced by a    *)
(* rational approximation (see Log2).  An object is a record; a property   *)
(* that is undefined is a key the record does not have.  A codec string   *)
(* "name (profile)" is the record [name, profile]; String.startsWith      *)
(* compares the name.                                                      *)
(***************************************************************************)
EXTENDS Integers, Sequences, FiniteSets, TLC

VARIABLES
  pc,                \* where the pipeline stands
  metadata,          \* analyzeVideo: the Partial<Format> accumulator
  nStrings,          \* analyzeVideo: strings.length
  seenContainer,     \* history: a Duration line has been logged
  videoAfterContainer, \* history: a Video line has been logged after a Duration line
  roughResolutions,  \* getVideoFormats: the array roughResolutions
  fineResolutions,   \* getVideoFormats: the array fineResolutions
  gifResolutions,    \* getVideoFormats: the array gifResolutions
  videoOptions,      \* the VideoFormat[] collected by getVideoFormats
  audioOptions,      \* the AudioFormat[] returned by getAudioFormats, or TypeError
  format,            \* convertVideo: the target Format
  built,             \* convertVideo: the outcome of building the arguments
  progressHook,      \* the worker's progress callback: "noop" or "convert"
  runCalls,          \* number of ffmpeg.run calls issued by convertVideo
  nProgress,         \* number of progress events the worker has emitted
  lastPercent,       \* the last value handed to the caller's onProgress
  lateProgress,      \* history: onProgress was invoked after the conversion ended
  props,             \* Timeline: the props frame and limit; no key while unmounted
  valueRef,          \* Timeline: valueRef.current, the crop
  drag,              \* Timeline: the closure of the drag in progress
  onChangeCalled     \* history: onChange has reported valueRef.current

vars == <<pc, metadata, nStrings, seenContainer, videoAfterContainer,
          roughResolutions, fineResolutions, gifResolutions, videoOptions,
          audioOptions, format, built, progressHook, runCalls, nProgress,
          lastPercent, lateProgress, props, valueRef, drag, onChangeCalled>>

\* obj.key !== undefined
Has(obj, key) == key \in DOMAIN obj

\* {...obj, ...overrides}
Spread(obj, overrides) ==
  [key \in DOMAIN obj \cup DOMAIN overrides |->
     IF key \in DOMAIN overrides THEN overrides[key] ELSE obj[key]]

\* {}
EmptyObject == <<>>

\* Bounds of the model.
MaxLines == 3
MaxProgress == 2

(***************************************************************************)
(* The diagnostic lines the worker may log.                                *)
(***************************************************************************)
Codec(name, profile) == [name |-> name, profile |-> profile]

\* "Duration: hh:mm:ss.00, start: s, bitrate: b kb/s"
DurationLines ==
  { [kind |-> "Duration", duration |-> d, start |-> 0] :
      d \in { <<0, 0, 10>>, <<0, 2, 0>>, <<0, 3, 40>>, <<0, 4, 0>> } }

\* "Stream #0:0: Video: codec, color, WxH, b kb/s, f fps, t tbr"
VideoLines ==
  { [kind |-> "Video", codec |-> cc[1], color |-> cc[2],
     width |-> wh[1], height |-> wh[2], bitrate |-> b,
     fps |-> ft[1], tbr |-> ft[2]] :
      cc \in { <<Codec("h264", "High"), "yuv420p">>,
               <<Codec("hevc", "Main"), "yuv420p">> },
      wh \in { <<1920, 1080>>, <<641, 481>>, <<320, 240>> },
      b \in { 300, 4000 },
      ft \in { <<29970, 30000>>, <<10000, 10000>>, <<120000, 60000>> } }

\* "Stream #0:1: Audio: codec, r Hz, layout, fltp, b kb/s"
AudioLines ==
  { [kind |-> "Audio", codec |-> cb[1], sampleRate |-> r,
     channelSetup |-> "stereo", bitrate |-> cb[2]] :
      cb \in { <<Codec("aac", "LC"), 256>>, <<Codec("mp3", ""), 320>> },
      r \in { 44100 } }

OtherLines == { [kind |-> "Other"] }

Lines == DurationLines \cup VideoLines \cup AudioLines \cup OtherLines

\* The three regular expressions of parseMetadata, as classifiers.
MetadataMatch(message) == message.kind = "Duration"
VideoMatch(message) == message.kind = "Video"
AudioMatch(message) == message.kind = "Audio"

Max(a, b) == IF a >= b THEN a ELSE b

\* duration.split(":").map(parseFloat).reduce((a, b) => a * 60 + b)
RECURSIVE Reduce60(_, _)
Reduce60(acc, parts) ==
  IF parts = <<>> THEN acc
  ELSE Reduce60(acc * 60 + Head(parts), Tail(parts))

ParseDuration(parts) == Reduce60(Head(parts), Tail(parts))

\* parseMetadata with the video pattern accepted before any container line.
parseMetadataNoContainerCheck(message, md) ==
  IF MetadataMatch(message)
  THEN Spread(md, [container |->
          [duration |-> ParseDuration(message.duration),
           start |-> message.start]])
  ELSE IF VideoMatch(message)
  THEN Spread(md, [video |->
          [original |-> TRUE,
           codec |-> message.codec,
           color |-> message.color,
           width |-> message.width,
           height |-> message.height,
           bitrate |-> message.bitrate,
           expectedSize |->
             <<IF Has(md, "container")
               THEN message.bitrate * md.container.duration ELSE 0, 8>>,
           fps |-> <<Max(message.fps, message.tbr), 1>>]])
  ELSE md

\* parseMetadata(message, metadata): the accumulator after the line.
parseMetadata(message, md) ==
  IF MetadataMatch(message)
  THEN Spread(md, [container |->
          [duration |-> ParseDuration(message.duration),
           start |-> message.start]])
  ELSE IF VideoMatch(message) /\ Has(md, "container")
  THEN Spread(md, [video |->
          [original |-> TRUE,
           codec |-> message.codec,
           color |-> message.color,
           width |-> message.width,
           height |-> message.height,
           bitrate |-> message.bitrate,
           expectedSize |-> <<message.bitrate * md.container.duration, 8>>,
           fps |-> <<Max(message.fps, message.tbr), 1>>]])
  ELSE IF AudioMatch(message) /\ Has(md, "container")
  THEN Spread(md, [audio |->
          [original |-> TRUE,
           codec |-> message.codec,
           sampleRate |-> message.sampleRate,
           channelSetup |-> message.channelSetup,
           bitrate |-> message.bitrate,
           expectedSize |-> <<message.bitrate * md.container.duration, 8>>]])
  ELSE md

(***************************************************************************)
(* Rational arithmetic.                                                    *)
(***************************************************************************)
RatLess(a, b) == a[1] * b[2] < b[1] * a[2]

\* Math.min(a, b)
RatMin(a, b) == IF RatLess(b, a) THEN b ELSE a

\* Math.floor(x)
Floor(x) == x[1] \div x[2]

\* Math.ceil(x)
Ceil(x) == - ((- x[1]) \div x[2])

\* Math.round(x): the nearest integer, a half rounds up.
Round(x) == (2 * x[1] + x[2]) \div (2 * x[2])

\* Math.floor(n * p / q) for natural n, computed without leaving 32 bits.
FloorMulDiv(n, p, q) == (n \div q) * p + ((n % q) * p) \div q

\* Math.log2(fps) as a rational; 211/43 = 4.90698 for log2(30) = 4.90689.
\* The ladders only hold the default frame rate.
Log2(fps) == CASE fps = 30000 -> <<211, 43>>

(***************************************************************************)
(* The format catalog.                                                     *)
(***************************************************************************)
\* The default of createResolution's parameter fps, in 1/1000 fps.
DefaultFps == 30000

createResolution(source, width, height, fps) ==
  LET video == source.video
      scaleFactor ==
        RatMin(RatMin(<<1, 1>>, <<width, video.width>>),
               <<height, video.height>>)
  IN [width |-> Round(<<video.width * scaleFactor[1], scaleFactor[2] * 2>>) * 2,
      height |-> Round(<<video.height * scaleFactor[1], scaleFactor[2] * 2>>) * 2,
      fps |-> fps,
      expectedWidth |-> width,
      expectedHeight |-> height]

\* list.filter((r, index, list) => list[index + 1]?.width !== r.width)
RECURSIVE FilterFrom(_, _)
FilterFrom(list, index) ==
  IF index > Len(list) THEN <<>>
  ELSE LET keep == IF index + 1 <= Len(list)
                   THEN list[index + 1].width # list[index].width
                   ELSE TRUE
       IN (IF keep THEN <<list[index]>> ELSE <<>>) \o FilterFrom(list, index + 1)

filterSensibleResolutions(list) == FilterFrom(list, 1)

\* Array.prototype.reverse: the array after the call (it is reversed in place).
reverse(array) == [i \in 1..Len(array) |-> array[Len(array) + 1 - i]]

estimateH264Size(res, crf, duration) ==
  FloorMulDiv(res.width * res.height * duration,
              Log2(res.fps)[1], Log2(res.fps)[2] * 20 * crf * crf)

\* The frame rate of the source handed on without the reduction.
ReducedFpsUnreduced(fps, resFps) == fps

\* video.fps / Math.ceil(video.fps / res.fps)
ReducedFps(fps, resFps) ==
  <<fps[1], fps[2] * Ceil(<<fps[1], fps[2] * resFps>>)>>

\* `size_${totalSizeTarget / 1000}mb`, `gif_${h}p`, `crf_${h}p`
Preset(prefix, number, suffix) == <<prefix, number, suffix>>

\* resolutions.find(res => sizeTarget >= estimateH264Size(res, 28, duration)):
\* the index of the first such resolution, 0 when there is none.
RECURSIVE FindFrom(_, _, _, _)
FindFrom(resolutions, index, sizeTarget, duration) ==
  IF index > Len(resolutions) THEN 0
  ELSE IF sizeTarget >= estimateH264Size(resolutions[index], 28, duration)
  THEN index
  ELSE FindFrom(resolutions, index + 1, sizeTarget, duration)

\* The implausible candidate with its bitrate clamped at zero.
ImplausibleSizeTargetClamped(video, worst, totalSizeTarget, bitrateTarget) ==
  [preset |-> Preset("size_", totalSizeTarget \div 1000, "mb"),
   implausible |-> TRUE,
   codec |-> Codec("h264", "High"),
   color |-> "yuv420p",
   width |-> worst.width,
   height |-> worst.height,
   rotation |-> 0,
   bitrate |-> Max(0, Floor(bitrateTarget)),
   fps |-> <<video.fps[1],
             video.fps[2] * Ceil(<<video.fps[1], video.fps[2] * worst.fps>>)>>]

\* The candidate pushed when no resolution fits or the bitrate is too low.
ImplausibleSizeTarget(video, worst, totalSizeTarget, bitrateTarget) ==
  [preset |-> Preset("size_", totalSizeTarget \div 1000, "mb"),
   implausible |-> TRUE,
   codec |-> Codec("h264", "High"),
   color |-> "yuv420p",
   width |-> worst.width,
   height |-> worst.height,
   rotation |-> 0,
   bitrate |-> Floor(bitrateTarget),
   fps |-> ReducedFps(video.fps, worst.fps)]

\* The candidate that reuses the source stream for a size budget.
OriginalSizeTarget(video, totalSizeTarget) ==
  Spread(video, [preset |-> Preset("size_", totalSizeTarget \div 1000, "mb"),
                 original |-> TRUE])

\* The candidate synthesized for a size budget.
SynthesizedSizeTarget(video, resolution, totalSizeTarget, bitrateTarget) ==
  [preset |-> Preset("size_", totalSizeTarget \div 1000, "mb"),
   codec |-> Codec("h264", "High"),
   color |-> "yuv420p",
   width |-> resolution.width,
   height |-> resolution.height,
   rotation |-> 0,
   bitrate |-> Floor(bitrateTarget),
   fps |-> ReducedFps(video.fps, resolution.fps)]

\* One round of the loop without the cap at the crf=18 estimate.
SizeTargetOptionNoCap(source, resolutions, totalSizeTarget) ==
  LET container == source.container
      video == source.video
      audioBitrate == IF Has(source, "audio") /\ Has(source.audio, "bitrate")
                      THEN source.audio.bitrate ELSE 0
      sizeTarget == (totalSizeTarget * 88) \div 100
      bitrateTarget ==
        <<sizeTarget * 8 - audioBitrate * container.duration, container.duration>>
      found == FindFrom(resolutions, 1, sizeTarget, container.duration)
  IN IF found = 0 \/ RatLess(bitrateTarget, <<100, 1>>)
     THEN ImplausibleSizeTarget(video, resolutions[Len(resolutions)],
                                totalSizeTarget, bitrateTarget)
     ELSE
       LET originalSuitable ==
             /\ video.codec.name = "h264"
             /\ video.color = "yuv420p"
             /\ video.width <= 1920
             /\ video.height <= 1080
             /\ ~ RatLess(<<60000, 1>>, video.fps)
             /\ Has(video, "bitrate")
             /\ video.bitrate * container.duration <= 6 * sizeTarget
       IN IF originalSuitable
          THEN OriginalSizeTarget(video, totalSizeTarget)
          ELSE SynthesizedSizeTarget(video, resolutions[found], totalSizeTarget,
                                     bitrateTarget)

\* One round of the loop of videoFileSizeTargets.
SizeTargetOption(source, resolutions, totalSizeTarget) ==
  LET container == source.container
      video == source.video
      \* audio?.bitrate || 0
      audioBitrate == IF Has(source, "audio") /\ Has(source.audio, "bitrate")
                      THEN source.audio.bitrate ELSE 0
      sizeTarget0 == (totalSizeTarget * 88) \div 100
      bitrateTarget0 ==
        <<sizeTarget0 * 8 - audioBitrate * container.duration, container.duration>>
      found == FindFrom(resolutions, 1, sizeTarget0, container.duration)
  IN IF found = 0 \/ RatLess(bitrateTarget0, <<100, 1>>)
     THEN ImplausibleSizeTarget(video, resolutions[Len(resolutions)],
                                totalSizeTarget, bitrateTarget0)
     ELSE
       LET resolution == resolutions[found]
           maxSize == estimateH264Size(resolution, 18, container.duration)
           maxBitrate == <<maxSize * 8, container.duration>>
           tighten == RatLess(maxBitrate, bitrateTarget0)
           sizeTarget == IF tighten THEN maxSize ELSE sizeTarget0
           bitrateTarget == IF tighten THEN maxBitrate ELSE bitrateTarget0
           originalSuitable ==
             /\ video.codec.name = "h264"
             /\ video.color = "yuv420p"
             /\ video.width <= 1920
             /\ video.height <= 1080
             /\ ~ RatLess(<<60000, 1>>, video.fps)
             /\ Has(video, "bitrate")
             /\ video.bitrate * container.duration <= 6 * sizeTarget
       IN IF originalSuitable
          THEN OriginalSizeTarget(video, totalSizeTarget)
          ELSE SynthesizedSizeTarget(video, resolution, totalSizeTarget,
                                     bitrateTarget)

videoFileSizeTargets(source, resolutions) ==
  [i \in 1..3 |->
     SizeTargetOption(source, resolutions, <<8000, 16000, 50000>>[i])]

\* The candidate videoGifTargets pushes for one resolution.
GifTarget(resolution) ==
  [preset |-> Preset("gif_", resolution.expectedHeight, "p"),
   codec |-> Codec("gif", ""),
   color |-> "bgra",
   width |-> resolution.width,
   height |-> resolution.height,
   rotation |-> 0,
   fps |-> <<100000, 6>>]

\* The options videoGifTargets returns; it walks resolutions.reverse().
videoGifTargets(source, resolutions) ==
  LET reversed == reverse(resolutions)
  IN [i \in 1..Len(reversed) |-> GifTarget(reversed[i])]

\* The reused candidate given the dimensions of the ladder resolution.
OriginalResolutionTargetResized(source, resolution) ==
  Spread(source.video,
         [preset |-> Preset("crf_", resolution.expectedHeight, "p"),
          original |-> TRUE,
          width |-> resolution.width,
          height |-> resolution.height])

\* The candidate that reuses the source stream for a resolution.
OriginalResolutionTarget(source, resolution) ==
  Spread(source.video,
         [preset |-> Preset("crf_", resolution.expectedHeight, "p"),
          original |-> TRUE])

\* The synthesized candidate built on a copy of the source stream, whose
\* bitrate it keeps beside the crf.
SynthesizedResolutionTargetSpread(source, resolution) ==
  Spread(source.video,
         [preset |-> Preset("crf_", resolution.expectedHeight, "p"),
          original |-> FALSE,
          codec |-> Codec("h264", "High"),
          color |-> "yuv420p",
          width |-> resolution.width,
          height |-> resolution.height,
          rotation |-> 0,
          crf |-> 21,
          fps |-> <<source.video.fps[1],
                    source.video.fps[2]
                      * Ceil(<<source.video.fps[1],
                               source.video.fps[2] * resolution.fps>>)>>])

\* The candidate synthesized for a resolution.
SynthesizedResolutionTarget(source, resolution) ==
  [preset |-> Preset("crf_", resolution.expectedHeight, "p"),
   original |-> FALSE,
   codec |-> Codec("h264", "High"),
   color |-> "yuv420p",
   width |-> resolution.width,
   height |-> resolution.height,
   rotation |-> 0,
   crf |-> 21,
   fps |-> ReducedFps(source.video.fps, resolution.fps)]

\* One round of the loop of videoResolutionTargets.
ResolutionTargetOption(source, resolution) ==
  LET originalSuitable ==
        /\ source.video.codec.name = "h264"
        /\ source.video.color = "yuv420p"
        /\ 2 * source.video.width <= 3 * resolution.width
        /\ 2 * source.video.height <= 3 * resolution.height
        /\ ~ RatLess(<<60000, 1>>, source.video.fps)
        /\ Has(source.video, "bitrate")
        /\ source.video.bitrate * source.container.duration
             <= 8 * estimateH264Size(resolution, 18, source.container.duration)
  IN IF originalSuitable
     THEN OriginalResolutionTarget(source, resolution)
     ELSE SynthesizedResolutionTarget(source, resolution)

\* The options videoResolutionTargets returns; it walks resolutions.reverse().
videoResolutionTargets(source, resolutions) ==
  LET reversed == reverse(resolutions)
  IN [i \in 1..Len(reversed) |-> ResolutionTargetOption(source, reversed[i])]

\* sampleRate === 44100 ? 44100 : 48000
SnapSampleRate(sampleRate) == IF sampleRate = 44100 THEN 44100 ELSE 48000

NoAudio ==
  [preset |-> "none", codec |-> Codec("none", ""), sampleRate |-> 0,
   channelSetup |-> "none", bitrate |-> 0]

\* getAudioFormats(source): [threw, options].  Reading source.audio.codec
\* of a source without audio throws a TypeError.
getAudioFormats(source) ==
  IF ~ Has(source, "audio")
  THEN [threw |-> "TypeError", options |-> <<>>]
  ELSE IF source.audio.codec = Codec("none", "")
  THEN [threw |-> "none", options |-> <<NoAudio>>]
  ELSE
    LET low == [preset |-> "bitrate_low",
                codec |-> Codec("aac", "HE-AACv2"),
                sampleRate |-> SnapSampleRate(source.audio.sampleRate),
                channelSetup |-> "stereo",
                bitrate |-> 32]
        originalSuitable ==
          source.audio.codec.name = "aac" /\ source.audio.bitrate < 260
        high == IF originalSuitable
                THEN Spread(source.audio, [preset |-> "bitrate_high"])
                ELSE [preset |-> "bitrate_high",
                      codec |-> Codec("aac", "LC"),
                      sampleRate |-> SnapSampleRate(source.audio.sampleRate),
                      channelSetup |-> "stereo",
                      bitrate |-> 192]
    IN [threw |-> "none", options |-> <<NoAudio, low, high>>]


(***************************************************************************)
(* The argument builder and the conversion.                                *)
(***************************************************************************)
\* if (x) for a number that may be undefined: neither undefined nor 0.
Truthy(obj, key) == Has(obj, key) /\ obj[key] # 0

\* An argument list is a sequence of <<flag, value>>; a flag that stands
\* alone has the value "".  A function that throws returns no list.
Returned(args) == [threw |-> "none", args |-> args]
Thrown(error) == [threw |-> error, args |-> <<>>]

\* The rate control of an h264 target: lines 73-79 of videoArguments.
RateControl(video) ==
  IF Truthy(video, "crf")
  THEN Returned(<< <<"-crf:v", video.crf>> >>)
  ELSE IF Truthy(video, "bitrate")
  THEN Returned(<< <<"-b:v", <<video.bitrate, "k">> >> >>)
  ELSE Thrown("No video bitrate or crf specified")

videoArguments(md, fmt) ==
  IF ~ Has(fmt, "video") \/ fmt.video.codec = Codec("none", "")
  THEN Returned(<< <<"-vn", "">> >>)
  ELSE
    LET head == << <<"-pix_fmt:v", fmt.video.color>>,
                   <<"-sws_flags", "bilinear">> >>
        size == IF fmt.video.width # md.video.width
                   \/ fmt.video.height # md.video.height
                THEN << <<"-s:v", <<fmt.video.width, "x", fmt.video.height>> >> >>
                ELSE <<>>
        rate == IF RatLess(fmt.video.fps, md.video.fps)
                THEN << <<"-r:v", fmt.video.fps>> >>
                ELSE <<>>
    IN IF fmt.video.codec.name = "h264"
       THEN LET control == RateControl(fmt.video)
            IN IF control.threw = "none"
               THEN Returned(head \o size \o rate
                             \o << <<"-c:v", "libx264">>,
                                   <<"-preset:v", "fast">>,
                                   <<"-profile:v", "high">> >>
                             \o control.args)
               ELSE control
       ELSE Thrown("Unsupported video codec")

audioArguments(md, fmt) ==
  IF ~ Has(fmt, "audio") \/ fmt.audio.codec = Codec("none", "")
  THEN Returned(<< <<"-an", "">> >>)
  ELSE IF fmt.audio.codec.name = "aac"
  THEN
    LET profile ==
          IF fmt.audio.channelSetup = "stereo" /\ fmt.audio.bitrate <= 48
          THEN << <<"-profile:a", "aac_he_v2">> >>
          ELSE IF (fmt.audio.channelSetup = "mono" /\ fmt.audio.bitrate <= 48)
                  \/ fmt.audio.bitrate <= 72
          THEN << <<"-profile:a", "aac_he">> >>
          ELSE <<>>
    IN Returned(<< <<"-ar", fmt.audio.sampleRate>>,
                   <<"-c:a", "libfdk_aac">>,
                   <<"-b:a", <<fmt.audio.bitrate, "k">> >>,
                   <<"-ac", "2">>,
                   <<"-strict", "-2">> >> \o profile)
  ELSE Thrown("Unsupported audio codec")

\* Lines 12-30 of convertVideo: the whole argument list, or the error thrown.
BuildArguments(md, fmt) ==
  LET seek == IF fmt.container.start > md.container.start
              THEN << <<"-ss", fmt.container.start>> >> ELSE <<>>
      limit == IF fmt.container.duration
                    < md.container.duration - fmt.container.start
               THEN << <<"-t", fmt.container.duration>> >> ELSE <<>>
      video == videoArguments(md, fmt)
      audio == audioArguments(md, fmt)
  IN IF video.threw # "none" THEN video
     ELSE IF audio.threw # "none" THEN audio
     ELSE Returned(<< <<"-hide_banner", "">>, <<"-y", "">> >>
                   \o seek \o limit
                   \o << <<"-i", "input">> >>
                   \o video.args \o audio.args
                   \o << <<"-sn", "">>, <<"-dn", "">>, <<"-f", "mp4">>,
                         <<"-movflags", "+faststart">>, <<"output", "">> >>)

\* The callback convertVideo installs: the percentage handed to onProgress.
\* The ratio is given in hundredths.
ProgressPercent(ratio) == IF ratio >= 0 /\ ratio <= 100 THEN ratio ELSE 0

\* The ratios the worker may report, in hundredths.
Ratios == {50, 150}


\* No drag listener is attached to the document.
NoDrag == [moveHandler |-> "none"]

\* The timeline component is not rendered.
TimelineUnmounted ==
  /\ props = EmptyObject
  /\ valueRef = EmptyObject
  /\ drag = NoDrag
  /\ onChangeCalled = FALSE

\* The state after construction: no line logged, no catalog, no conversion.
PipelineAtRest ==
  /\ pc = "analyze"
  /\ metadata = EmptyObject
  /\ nStrings = 0
  /\ seenContainer = FALSE
  /\ videoAfterContainer = FALSE
  /\ roughResolutions = <<>>
  /\ fineResolutions = <<>>
  /\ gifResolutions = <<>>
  /\ videoOptions = <<>>
  /\ audioOptions = <<>>
  /\ format = EmptyObject
  /\ built = EmptyObject
  /\ progressHook = "noop"
  /\ runCalls = 0
  /\ nProgress = 0
  /\ lastPercent = 0
  /\ lateProgress = FALSE

Init ==
  /\ PipelineAtRest
  /\ TimelineUnmounted

catalogVars == <<roughResolutions, fineResolutions, gifResolutions,
                 videoOptions, audioOptions>>
convertVars == <<format, built, progressHook, runCalls, nProgress,
                 lastPercent, lateProgress>>
analyzeVars == <<metadata, nStrings, seenContainer, videoAfterContainer>>
timelineVars == <<props, valueRef, drag, onChangeCalled>>

\* The logger installed by analyzeVideo receives one line from the worker.
Logger ==
  /\ pc = "analyze"
  /\ nStrings < MaxLines
  /\ \E message \in Lines :
       /\ metadata' = parseMetadata(message, metadata)
       /\ seenContainer' = (seenContainer \/ MetadataMatch(message))
       /\ videoAfterContainer' =
            (videoAfterContainer \/ (VideoMatch(message) /\ seenContainer))
  /\ nStrings' = nStrings + 1
  /\ UNCHANGED timelineVars
  /\ UNCHANGED <<pc, catalogVars, convertVars>>

\* The probe run has ended: analyzeVideo accepts the accumulator or throws.
AnalyzeAccept ==
  /\ pc = "analyze"
  /\ ~ (~ Has(metadata, "container") \/ ~ Has(metadata, "video"))
  /\ pc' = "known"
  /\ UNCHANGED timelineVars
  /\ UNCHANGED <<analyzeVars, catalogVars, convertVars>>

AnalyzeThrow ==
  /\ pc = "analyze"
  /\ (~ Has(metadata, "container") \/ ~ Has(metadata, "video"))
  /\ pc' = "analysisFailed"
  /\ UNCHANGED timelineVars
  /\ UNCHANGED <<analyzeVars, catalogVars, convertVars>>

\* getVideoFormats, up to its return statement: the three ladders.
GetVideoFormats ==
  /\ pc = "known"
  /\ roughResolutions' = filterSensibleResolutions(
       << createResolution(metadata, 1280, 720, DefaultFps),
          createResolution(metadata, 640, 480, DefaultFps) >>)
  /\ fineResolutions' = filterSensibleResolutions(
       << createResolution(metadata, 1280, 720, DefaultFps),
          createResolution(metadata, 854, 480, DefaultFps),
          createResolution(metadata, 640, 360, DefaultFps),
          createResolution(metadata, 426, 240, DefaultFps) >>)
  /\ gifResolutions' = << createResolution(metadata, 600, 600, DefaultFps) >>
  /\ pc' = "sizeTargets"
  /\ UNCHANGED timelineVars
  /\ UNCHANGED <<analyzeVars, videoOptions, audioOptions, convertVars>>

\* The call videoFileSizeTargets(source, fineResolutions).
CallVideoFileSizeTargets ==
  /\ pc = "sizeTargets"
  /\ videoOptions' = videoOptions \o videoFileSizeTargets(metadata, fineResolutions)
  /\ pc' = "gifTargets"
  /\ UNCHANGED timelineVars
  /\ UNCHANGED <<analyzeVars, roughResolutions, fineResolutions,
                 gifResolutions, audioOptions, convertVars>>

\* The call videoGifTargets(source, gifResolutions).
CallVideoGifTargets ==
  /\ pc = "gifTargets"
  /\ videoOptions' = videoOptions \o videoGifTargets(metadata, gifResolutions)
  /\ gifResolutions' = reverse(gifResolutions)
  /\ pc' = "resolutionTargets"
  /\ UNCHANGED timelineVars
  /\ UNCHANGED <<analyzeVars, roughResolutions, fineResolutions,
                 audioOptions, convertVars>>

\* The call videoResolutionTargets(source, roughResolutions).
CallVideoResolutionTargets ==
  /\ pc = "resolutionTargets"
  /\ videoOptions' =
       videoOptions \o videoResolutionTargets(metadata, roughResolutions)
  /\ roughResolutions' = reverse(roughResolutions)
  /\ pc' = "audioFormats"
  /\ UNCHANGED timelineVars
  /\ UNCHANGED <<analyzeVars, fineResolutions, gifResolutions,
                 audioOptions, convertVars>>

\* The call getAudioFormats(source).
CallGetAudioFormats ==
  /\ pc = "audioFormats"
  /\ LET result == getAudioFormats(metadata)
     IN /\ audioOptions' = result.options
        /\ pc' = IF result.threw = "none" THEN "catalogued" ELSE "audioThrew"
  /\ UNCHANGED timelineVars
  /\ UNCHANGED <<analyzeVars, roughResolutions, fineResolutions,
                 gifResolutions, videoOptions, convertVars>>

\* convertVideo(video, format, onProgress) up to its await: the arguments
\* are built, the progress hook is installed and the worker is started.
\* The caller passes a format made of one video and one audio candidate.
ConvertVideo ==
  /\ pc = "catalogued"
  /\ \E v \in 1..Len(videoOptions), a \in 1..Len(audioOptions) :
       LET fmt == [container |-> metadata.container,
                   video |-> videoOptions[v],
                   audio |-> audioOptions[a]]
           result == BuildArguments(metadata, fmt)
       IN /\ format' = fmt
          /\ built' = result
          /\ IF result.threw = "none"
             THEN /\ progressHook' = "convert"
                  /\ runCalls' = runCalls + 1
                  /\ pc' = "running"
             ELSE /\ pc' = "convertThrew"
                  /\ UNCHANGED <<progressHook, runCalls>>
  /\ UNCHANGED timelineVars
  /\ UNCHANGED <<analyzeVars, catalogVars, nProgress, lastPercent, lateProgress>>

\* The worker reports progress to whatever hook is installed on it.  The
\* worker outlives the conversion, so it may report after the conversion ended.
WorkerProgress ==
  /\ pc \in {"running", "converted", "convertFailed"}
  /\ nProgress < MaxProgress
  /\ nProgress' = nProgress + 1
  /\ \E ratio \in Ratios :
       IF progressHook = "convert"
       THEN /\ lastPercent' = ProgressPercent(ratio)
            /\ lateProgress' = (lateProgress \/ pc # "running")
       ELSE UNCHANGED <<lastPercent, lateProgress>>
  /\ UNCHANGED timelineVars
  /\ UNCHANGED <<pc, analyzeVars, catalogVars, format, built, progressHook,
                 runCalls>>

\* The hook of the worker after ffmpeg.setProgress(() => void 0).
ClearedHook == "noop"

\* ffmpeg.run resolves: the result is read and the progress hook is cleared.
RunResolve ==
  /\ pc = "running"
  /\ progressHook' = ClearedHook
  /\ pc' = "converted"
  /\ UNCHANGED timelineVars
  /\ UNCHANGED <<analyzeVars, catalogVars, format, built, runCalls, nProgress,
                 lastPercent, lateProgress>>

\* ffmpeg.run rejects: convertVideo rejects at its await.
RunReject ==
  /\ pc = "running"
  /\ pc' = "convertFailed"
  /\ UNCHANGED timelineVars
  /\ UNCHANGED <<analyzeVars, catalogVars, convertVars>>


Next ==
  \/ Logger
  \/ AnalyzeAccept
  \/ AnalyzeThrow
  \/ GetVideoFormats
  \/ CallVideoFileSizeTargets
  \/ CallVideoGifTargets
  \/ CallVideoResolutionTargets
  \/ CallGetAudioFormats
  \/ ConvertVideo
  \/ WorkerProgress
  \/ RunResolve
  \/ RunReject

(***************************************************************************)
(* The timeline (components/timeline.tsx).  Times and pointer coordinates  *)
(* are integers; the frames and the wrapper are chosen so that every       *)
(* position the code computes is a whole number.                           *)
(***************************************************************************)

\* The frames the timeline may be rendered with.
Frames == {[start |-> s, duration |-> d] : s \in {0, 2}, d \in {4, 8}}

\* The values of the optional prop limit, when it is given.
Limits == {3, 6}

\* wrapper.getBoundingClientRect()
Rects == {[left |-> 1, width |-> 4]}

\* The clientX of a mouse event; the pointer may leave the wrapper on both sides.
ClientXs == 0 .. 6

Min(a, b) == IF a <= b THEN a ELSE b

\* Math.max(min, Math.min(max, value))
clamp(value, min, max) == Max(min, Min(max, value))

\* const duration = limit ? Math.min(limit, frame.duration) : frame.duration
duration ==
  IF Truthy(props, "limit")
  THEN Min(props.limit, props.frame.duration)
  ELSE props.frame.duration

\* (clientX - rect.left) / rect.width * frame.duration + frame.start
Position(clientX, rect) ==
  ((clientX - rect.left) * props.frame.duration) \div rect.width
    + props.frame.start

bodyHandler(initialValue, valueChange) ==
  [start |-> clamp(initialValue.start + valueChange,
                   props.frame.start,
                   props.frame.start + props.frame.duration
                     - initialValue.duration),
   duration |-> initialValue.duration]

leftHandler(initialValue, valueChange) ==
  LET limitedChange ==
        clamp(valueChange,
              Max(initialValue.duration - duration, - initialValue.start),
              initialValue.duration)
  IN [start |-> initialValue.start + limitedChange,
      duration |-> initialValue.duration - limitedChange]

rightHandler(initialValue, valueChange) ==
  LET limitedChange ==
        clamp(valueChange,
              - initialValue.duration,
              Min(duration - initialValue.duration,
                  props.frame.start + props.frame.duration
                    - initialValue.start - initialValue.duration))
  IN [start |-> initialValue.start,
      duration |-> initialValue.duration + limitedChange]

\* The moveHandler a drag handler was created with.
moveHandler(name, initialValue, valueChange) ==
  CASE name = "body" -> bodyHandler(initialValue, valueChange)
    [] name = "left" -> leftHandler(initialValue, valueChange)
    [] name = "right" -> rightHandler(initialValue, valueChange)

\* The crop lies within the frame and is no longer than the limit allows.
WithinFrame(crop) ==
  /\ props.frame.start <= crop.start
  /\ crop.start + crop.duration <= props.frame.start + props.frame.duration
  /\ 0 <= crop.duration
  /\ crop.duration <= duration

pipelineVars == <<pc, analyzeVars, catalogVars, convertVars>>

\* The timeline is rendered with a frame, with or without a limit, and a crop
\* that lies within the frame.
TimelineInit ==
  /\ PipelineAtRest
  /\ \E frame \in Frames :
       \/ props = [frame |-> frame]
       \/ \E limit \in Limits : props = [frame |-> frame, limit |-> limit]
  /\ \E start \in 0 .. 10, length \in 0 .. 8 :
       valueRef = [start |-> start, duration |-> length]
  /\ WithinFrame(valueRef)
  /\ drag = NoDrag
  /\ onChangeCalled = FALSE

\* mousedown on the body, the left handle or the right handle: the handler
\* made by createDragHandler keeps the rectangle, the crop and the position
\* and listens for mousemove, mouseup and blur.
MouseDown ==
  /\ drag = NoDrag
  /\ \E name \in {"body", "left", "right"}, clientX \in ClientXs, rect \in Rects :
       drag' = [moveHandler |-> name,
                rect |-> rect,
                initialValue |-> valueRef,
                initialPosition |-> Position(clientX, rect)]
  /\ UNCHANGED <<props, valueRef, onChangeCalled>>
  /\ UNCHANGED pipelineVars

\* mousemove during a drag.
wrappedHandler ==
  /\ drag # NoDrag
  /\ \E clientX \in ClientXs :
       LET position == Position(clientX, drag.rect)
           valueChange == position - drag.initialPosition
       IN valueRef' = moveHandler(drag.moveHandler, drag.initialValue, valueChange)
  /\ onChangeCalled' = TRUE
  /\ UNCHANGED <<props, drag>>
  /\ UNCHANGED pipelineVars

\* mouseup, or blur of the window, during a drag.
detachHandler ==
  /\ drag # NoDrag
  /\ drag' = NoDrag
  /\ UNCHANGED <<props, valueRef, onChangeCalled>>
  /\ UNCHANGED pipelineVars

TimelineNext ==
  \/ MouseDown
  \/ wrappedHandler
  \/ detachHandler

(***************************************************************************)
(* Vocabulary of the properties.                                           *)
(***************************************************************************)
\* getVideoFormats has collected the three families.
VideoCatalogued ==
  pc \in {"audioFormats", "catalogued", "audioThrew", "running", "converted",
          "convertFailed", "convertThrew"}

\* The call getAudioFormats(source) is over (it returned or threw).
AudioCallOver ==
  pc \in {"catalogued", "audioThrew", "running", "converted", "convertFailed",
          "convertThrew"}

\* convertVideo has been called with format.
ConvertCalled == pc \in {"running", "converted", "convertFailed", "convertThrew"}

\* The analysis has accepted the accumulator as the source Format.
Accepted == pc \notin {"analyze", "analysisFailed"}

IsOriginal(option) == Has(option, "original") /\ option.original = TRUE
Synthesized(option) == ~ IsOriginal(option)
ExactlyOneRateControl(option) == Has(option, "crf") # Has(option, "bitrate")
NoRateControl(option) == ~ Has(option, "crf") /\ ~ Has(option, "bitrate")
Options == { videoOptions[i] : i \in 1..Len(videoOptions) }
Elements(array) == { array[i] : i \in 1..Len(array) }
Flags(args) == { args[i][1] : i \in 1..Len(args) }
RatEq(a, b) == a[1] * b[2] = b[1] * a[2]
RatLeq(a, b) == a[1] * b[2] <= b[1] * a[2]

\* C1 (as claimed): every synthesized candidate of getVideoFormats, whichever
\* family produced it, has exactly one of crf and bitrate set.
C1_EverySynthesizedHasOneRateControl ==
  \A option \in Options :
    Synthesized(option) => ExactlyOneRateControl(option)

\* C1 (amended): every synthesized candidate of videoFileSizeTargets and of
\* videoResolutionTargets (the h264 candidates) has exactly one of crf and
\* bitrate set, and every candidate of videoGifTargets has neither.
C1_H264SynthesizedHasOneRateControl ==
  \A option \in Options :
    Synthesized(option) =>
      IF option.codec.name = "gif"
      THEN NoRateControl(option)
      ELSE option.codec.name = "h264" /\ ExactlyOneRateControl(option)

\* C1 witness: the three families are collected and hold a synthesized
\* candidate with a bitrate, one with a crf, and a gif candidate.
C1_Witness ==
  /\ VideoCatalogued
  /\ \E option \in Options :
       Synthesized(option) /\ Has(option, "bitrate") /\ ~ Has(option, "crf")
  /\ \E option \in Options :
       Synthesized(option) /\ Has(option, "crf") /\ ~ Has(option, "bitrate")
  /\ \E option \in Options : option.codec.name = "gif"

\* C2: every resolution createResolution returned for the source has an even
\* width and height that do not exceed the source's width and height.
C2_ResolutionEvenAndWithinSource ==
  \A res \in Elements(roughResolutions) \cup Elements(fineResolutions)
             \cup Elements(gifResolutions) :
    /\ res.width % 2 = 0
    /\ res.height % 2 = 0
    /\ res.width <= metadata.video.width
    /\ res.height <= metadata.video.height

\* C3: the analysis accepts exactly when a container line was logged and a
\* video line was logged after it; stream lines logged before any container
\* line leave the accumulator as it was; a missing audio line does not matter.
C3_AcceptIffContainerThenVideo ==
  /\ Accepted => (seenContainer /\ videoAfterContainer)
  /\ pc = "analysisFailed" => ~ (seenContainer /\ videoAfterContainer)
  /\ ~ seenContainer => metadata = EmptyObject
  /\ (pc = "analyze" /\ seenContainer /\ videoAfterContainer)
       => (Has(metadata, "container") /\ Has(metadata, "video"))

\* C3 witness: a source accepted although no audio line was logged, after
\* three lines (so one line was ignored or overwritten).
C3_Witness ==
  /\ pc = "known"
  /\ ~ Has(metadata, "audio")
  /\ nStrings = 3

\* C4: for every accepted source, sources without audio included,
\* getAudioFormats returns a list that starts with the disabled-audio
\* candidate, and that holds nothing else when the source has no audio.
C4_AudioListStartsDisabled ==
  AudioCallOver =>
    /\ Len(audioOptions) >= 1
    /\ audioOptions[1].codec = Codec("none", "")
    /\ audioOptions[1].bitrate = 0
    /\ ~ Has(metadata, "audio") => Len(audioOptions) = 1

\* C5: getAudioFormats returns exactly 1 candidate when the source audio codec
\* is "none" and exactly 3 otherwise (none, bitrate_low, bitrate_high), the
\* first with codec "none".
C5_AudioListLength ==
  AudioCallOver =>
    IF Has(metadata, "audio") /\ metadata.audio.codec = Codec("none", "")
    THEN Len(audioOptions) = 1 /\ audioOptions[1].codec = Codec("none", "")
    ELSE /\ Len(audioOptions) = 3
         /\ audioOptions[1].codec = Codec("none", "")
         /\ audioOptions[1].preset = "none"
         /\ audioOptions[2].preset = "bitrate_low"
         /\ audioOptions[3].preset = "bitrate_high"

\* C6: the calls videoGifTargets and videoResolutionTargets leave the ladder
\* they were handed in the order it had.
C6_LadderOrderKept ==
  [][ (pc \in {"gifTargets", "resolutionTargets"}) =>
        (gifResolutions' = gifResolutions /\ roughResolutions' = roughResolutions)
    ]_vars

\* The frame rate sourceFps / ceil(sourceFps / ladderFps), stated without
\* the catalog's own arithmetic: fps * n = sourceFps for the least n with
\* n * ladderFps >= sourceFps.
IsDivisorReduction(fps, sourceFps, ladderFps) ==
  \E n \in 1..8 :
    /\ n * ladderFps * sourceFps[2] >= sourceFps[1]
    /\ (n - 1) * ladderFps * sourceFps[2] < sourceFps[1]
    /\ fps[1] * n * sourceFps[2] = sourceFps[1] * fps[2]

\* The ladder resolutions an option may have been built from.
BuiltFrom(option) ==
  { res \in Elements(roughResolutions) \cup Elements(fineResolutions)
            \cup Elements(gifResolutions) :
      res.width = option.width /\ res.height = option.height }

\* C7 (as claimed): every synthesized candidate's fps is
\* sourceFps / ceil(sourceFps / ladderFps), so it exceeds neither the ladder
\* fps nor the source fps.
C7_EverySynthesizedFpsReduced ==
  VideoCatalogued =>
    \A option \in Options :
      Synthesized(option) =>
        /\ \E res \in BuiltFrom(option) :
             /\ IsDivisorReduction(option.fps, metadata.video.fps, res.fps)
             /\ RatLeq(option.fps, <<res.fps, 1>>)
        /\ RatLeq(option.fps, metadata.video.fps)

\* C7 (amended): every synthesized candidate of videoFileSizeTargets and of
\* videoResolutionTargets has the fps sourceFps / ceil(sourceFps / ladderFps),
\* which exceeds neither the ladder fps nor the source fps; every candidate
\* of videoGifTargets has the fixed fps 100/6, whatever the source fps.
C7_H264SynthesizedFpsReduced ==
  VideoCatalogued =>
    \A option \in Options :
      Synthesized(option) =>
        IF option.codec.name = "gif"
        THEN RatEq(option.fps, <<100000, 6>>)
        ELSE /\ \E res \in BuiltFrom(option) :
                  /\ IsDivisorReduction(option.fps, metadata.video.fps, res.fps)
                  /\ RatLeq(option.fps, <<res.fps, 1>>)
             /\ RatLeq(option.fps, metadata.video.fps)

\* C7 witness: a synthesized h264 candidate whose fps is a proper reduction
\* of the source fps, beside a gif candidate faster than the source.
C7_Witness ==
  /\ VideoCatalogued
  /\ \E option \in Options :
       /\ Synthesized(option)
       /\ option.codec.name = "h264"
       /\ RatLess(option.fps, metadata.video.fps)
  /\ \E option \in Options :
       option.codec.name = "gif" /\ RatLess(<<10000, 1>>, option.fps)

\* C8: for an h264 target the builder throws the missing-rate-control error
\* exactly when neither crf nor bitrate is set, emits -crf:v whenever crf is
\* set and -b:v whenever only bitrate is set; for a codec that is neither
\* "none" nor h264 it throws the unsupported-codec error and returns no list.
C8_RateControlErrorIffNeitherSet ==
  ConvertCalled =>
    LET video == format.video
        result == videoArguments(metadata, format)
    IN IF video.codec.name = "h264"
       THEN /\ (result.threw = "No video bitrate or crf specified")
                 <=> NoRateControl(video)
            /\ Has(video, "crf") => "-crf:v" \in Flags(result.args)
            /\ (~ Has(video, "crf") /\ Has(video, "bitrate"))
                 => "-b:v" \in Flags(result.args)
       ELSE video.codec # Codec("none", "")
              => (result.threw = "Unsupported video codec" /\ result.args = <<>>)

\* C9: building the arguments for a candidate that reuses the source stream
\* (original = true) emits neither -s:v nor -r:v.
C9_OriginalKeepsSizeAndRate ==
  (ConvertCalled /\ IsOriginal(format.video)) =>
    /\ "-s:v" \notin Flags(built.args)
    /\ "-r:v" \notin Flags(built.args)
    /\ "-s:v" \notin Flags(videoArguments(metadata, format).args)
    /\ "-r:v" \notin Flags(videoArguments(metadata, format).args)

\* C9 witness: the arguments of a reused candidate were built and the worker
\* was started with them.
C9_Witness ==
  /\ pc = "running"
  /\ IsOriginal(format.video)
  /\ built.threw = "none"
  /\ "-c:v" \in Flags(built.args)
  /\ "-b:v" \in Flags(built.args)

\* C10: a conversion that started the worker issued exactly one run call and,
\* once it has ended (run resolved or rejected), its progress hook is cleared,
\* so onProgress is never invoked by a later progress event of the worker.
C10_HookClearedWhenConversionEnds ==
  /\ pc \in {"converted", "convertFailed"} =>
       (runCalls = 1 /\ progressHook = "noop")
  /\ ~ lateProgress


\* The size budgets of videoFileSizeTargets, in the order of its loop.
Budgets == <<8000, 16000, 50000>>

\* The audio bitrate videoFileSizeTargets subtracts for the source.
SourceAudioBitrate ==
  IF Has(metadata, "audio") THEN metadata.audio.bitrate ELSE 0

\* videoFileSizeTargets has returned: its three options head videoOptions.
SizeTargetsReturned == pc \notin {"analyze", "analysisFailed", "known", "sizeTargets"}

Implausible(option) == Has(option, "implausible") /\ option.implausible = TRUE

\* No resolution of the fine ladder has a crf=28 estimate within budget*0.88.
NoneFits(budget) ==
  \A res \in Elements(fineResolutions) :
    estimateH264Size(res, 28, metadata.container.duration)
      > (budget * 88) \div 100

\* bitrateTarget = budget*0.88*8/duration - audioBitrate is below 100.
LowBitrate(budget) ==
  ((budget * 88) \div 100) * 8
     - SourceAudioBitrate * metadata.container.duration
    < 100 * metadata.container.duration

\* bitrate = floor(budget*0.88*8/duration - audioBitrate), not clamped.
IsFloorOfBitrateTarget(bitrate, budget) ==
  LET d == metadata.container.duration
      numerator == ((budget * 88) \div 100) * 8 - SourceAudioBitrate * d
  IN bitrate * d <= numerator /\ numerator < (bitrate + 1) * d

\* C11: for each budget the size-targeted candidate is flagged implausible
\* exactly when no ladder resolution fits at crf=28 or the bitrate target is
\* below 100; an implausible candidate has the dimensions of the last ladder
\* resolution and the bitrate floor(bitrateTarget), unclamped; three
\* size-targeted candidates are always returned, in budget order.
C11_ImplausibleIffNothingFits ==
  SizeTargetsReturned =>
    /\ Len(videoOptions) >= 3
    /\ \A i \in 1..3 :
         LET option == videoOptions[i]
             budget == Budgets[i]
             worst == fineResolutions[Len(fineResolutions)]
         IN /\ option.preset = <<"size_", budget \div 1000, "mb">>
            /\ Implausible(option) <=> (NoneFits(budget) \/ LowBitrate(budget))
            /\ Implausible(option) =>
                 /\ option.width = worst.width
                 /\ option.height = worst.height
                 /\ IsFloorOfBitrateTarget(option.bitrate, budget)

\* C11 witness: the size targets are returned; the first is implausible only
\* because nothing fits (its bitrate target is at least 100), and another
\* budget of the same source is plausible.
C11_Witness ==
  /\ pc = "gifTargets"
  /\ Implausible(videoOptions[1])
  /\ NoneFits(8000)
  /\ ~ LowBitrate(8000)
  /\ ~ Implausible(videoOptions[3])

\* The source is one videoFileSizeTargets may reuse for the budget.
ReusableForBudget(budget) ==
  LET video == metadata.video
  IN /\ video.codec.name = "h264"
     /\ video.color = "yuv420p"
     /\ video.width <= 1920
     /\ video.height <= 1080
     /\ RatLeq(video.fps, <<60000, 1>>)
     /\ Has(video, "bitrate")
     /\ video.bitrate * metadata.container.duration
          <= 6 * ((budget * 88) \div 100)

\* The bitrate is floor(bitrateTarget) for a bitrateTarget that is the
\* budget's own or the one the crf=18 estimate of res implies, and does not
\* exceed the latter.
CappedBitrate(bitrate, budget, res) ==
  LET d == metadata.container.duration
      maxSize == estimateH264Size(res, 18, d)
  IN /\ bitrate * d <= maxSize * 8
     /\ \/ IsFloorOfBitrateTarget(bitrate, budget)
        \/ (bitrate * d <= maxSize * 8 /\ maxSize * 8 < (bitrate + 1) * d)
     /\ bitrate * d
          <= ((budget * 88) \div 100) * 8 - SourceAudioBitrate * d

\* C12: a size-targeted candidate with original = true implies a source in
\* the h264 family, yuv420p, at most 1920x1080, at most 60 fps, of known
\* bitrate with sourceBitrate*duration/6 <= budget*0.88; a synthesized
\* candidate that is not implausible has bitrate = floor(bitrateTarget), with
\* bitrateTarget no more than the bitrate the crf=18 estimate of the chosen
\* resolution implies.
C12_ReuseOnlyWhenSuitable ==
  SizeTargetsReturned =>
    \A i \in 1..3 :
      LET option == videoOptions[i]
          budget == Budgets[i]
      IN /\ IsOriginal(option) => ReusableForBudget(budget)
         /\ (Synthesized(option) /\ ~ Implausible(option)) =>
              /\ Has(option, "bitrate")
              /\ \E res \in Elements(fineResolutions) :
                   /\ res.width = option.width
                   /\ res.height = option.height
                   /\ CappedBitrate(option.bitrate, budget, res)

\* C12 witness: the size targets are returned and hold a synthesized,
\* plausible candidate for one budget beside a candidate that reuses the
\* source for another.
C12_Witness ==
  /\ pc = "gifTargets"
  /\ \E i \in 1..3 :
       /\ Synthesized(videoOptions[i])
       /\ ~ Implausible(videoOptions[i])
  /\ \E i \in 1..3 : IsOriginal(videoOptions[i])

\* Every video candidate paired with every audio candidate of the catalog.
Pairs ==
  {[container |-> metadata.container,
    video |-> videoOptions[v],
    audio |-> audioOptions[a]] :
     v \in 1 .. Len(videoOptions), a \in 1 .. Len(audioOptions)}

\* C13: once both lists of the catalog are returned for an accepted source,
\* the argument builder accepts every pair of a video candidate and an audio
\* candidate: it returns an argument list and raises no error.
C13_EveryPairAccepted ==
  pc = "catalogued" =>
    \A pair \in Pairs :
      /\ BuildArguments(metadata, pair).threw = "none"
      /\ BuildArguments(metadata, pair).args # <<>>

\* C14: starting from a crop within the frame, the crop that onChange reports
\* after any drags of the body, the left handle and the right handle lies
\* within the frame and has 0 <= duration <= min(limit, frame.duration).
C14_CropWithinFrame ==
  onChangeCalled => WithinFrame(valueRef)

Spec == Init /\ [][Next]_vars

SpecTimeline == TimelineInit /\ [][TimelineNext]_vars

====
